---- MODULE Spec2Model ----
(***************************************************************************)
(* Model of llama_index/query_engine/citation_query_engine.py:             *)
(* CitaitonQueryEngine, its citation-node builder (_create_citation_nodes) *)
(* and its query paths (_query, _aquery, synthesize).                      *)
(*                                                                         *)
(* Data representation                                                     *)
(*   Optional[x]   : <<>> is None, <<v>> is the value v.                   *)
(*   dict          : a set of <<key, value>> pairs ({} is the empty dict). *)
(*   str (a text)  : <<doc, from, to>>, the characters from..to-1 of a     *)
(*                   document; len is to - from.                           *)
(*   f"Source {n}:\n{chunk}\n" : the tuple <<"Source ", n, ":\n", chunk,   *)
(*                   "\n">> of the pieces of the formatted string.         *)
(***************************************************************************)
EXTENDS Integers, Sequences, FiniteSets, TLC

VARIABLES
    \* ---- the engines (set by __init__) ----
    text_splitter,   \* engine -> self.text_splitter
    \* ---- one record per caller task of the event loop ----
    pc,              \* task -> position in _query / _aquery / synthesize
    mode,            \* task -> "query" | "aquery" | "synthesize"
    eng,             \* task -> the engine the task holds and calls
    query_bundle,    \* task -> the query_bundle argument
    passages,        \* task -> the passages the call works on, as retrieved or given
    nodes,           \* task -> the local `nodes`
    additional,      \* task -> the additional_source_nodes argument
    query_id,        \* task -> the local `query_id`
    retrieve_id,     \* task -> the local `retrieve_id`
    response,        \* task -> the local `response`
    returned,        \* task -> what the call returned to its caller
    error,           \* task -> the exception the call left with
    log,             \* task -> what the call did to its collaborators, in order
    running,         \* the task the single-threaded event loop is executing: {q}, or {}
    ncalls,          \* calls made so far
    failed_on,       \* engine -> a call on it has raised
    after_failure,   \* task -> the call started on an engine that had a failure
    \* ---- a direct call of _create_citation_nodes ----
    b_pc, b_nodes, b_splits, b_out

vars == <<text_splitter, pc, mode, eng, query_bundle, passages, nodes, additional,
          query_id, retrieve_id, response, returned, error, log, running,
          ncalls, failed_on, after_failure, b_pc, b_nodes, b_splits, b_out>>

engine_vars == <<text_splitter, pc, mode, eng, query_bundle, passages, nodes, additional,
                 query_id, retrieve_id, response, returned, error, log, running,
                 ncalls, failed_on, after_failure>>

builder_vars == <<b_pc, b_nodes, b_splits, b_out>>

-----------------------------------------------------------------------------
(* Bounds of the model *)

NumTasks == 3
MaxCalls == 2
MaxPassages == 2

-----------------------------------------------------------------------------
(* Python values *)

None == <<>>
Some(v) == <<v>>
EmptyDict == {}

\* dict.get(key, default)
get(d, key, default) ==
    IF \E p \in d : p[1] = key
    THEN (CHOOSE p \in d : p[1] = key)[2]
    ELSE default

Text(doc, from, to) == <<doc, from, to>>

\* len(str)
len(t) == t[3] - t[2]

\* TextSplit(text_chunk, num_char_overlap)
TextSplit(text_chunk, num_char_overlap) ==
    [text_chunk |-> text_chunk, num_char_overlap |-> num_char_overlap]

\* Node(text, extra_info, relationships, node_info)
Node(text, extra_info, relationships, node_info) ==
    [text |-> text, extra_info |-> extra_info,
     relationships |-> relationships, node_info |-> node_info]

\* NodeWithScore(node, score)
NodeWithScore(node, score) == [node |-> node, score |-> score]

\* TokenTextSplitter(chunk_size, chunk_overlap)
TokenTextSplitter(chunk_size, chunk_overlap) ==
    [chunk_size |-> chunk_size, chunk_overlap |-> chunk_overlap]

DEFAULT_SOURCE_CHUNK_SIZE == 512
DEFAULT_SOURCE_CHUNK_OVERLAP == 20
CITATION_CHUNK_SIZE == 256
CITATION_CHUNK_OVERLAP == 20

-----------------------------------------------------------------------------
(* The Chunk Splitter: TokenTextSplitter.split_text_with_overlaps.  Chunks  *)
(* of at most chunk_size, each after the first repeating the last           *)
(* chunk_overlap characters of its predecessor; the whole text is covered;  *)
(* the empty text has no chunk.                                             *)

NumChunks(L, size, overlap) ==
    IF L = 0 THEN 0
    ELSE IF L <= size THEN 1
    ELSE 1 + ((L - size) + (size - overlap) - 1) \div (size - overlap)

split_text_with_overlaps(splitter, text) ==
    LET size == splitter.chunk_size
        overlap == splitter.chunk_overlap
        step == size - overlap
        L == len(text)
        lo(k) == text[2] + (k - 1) * step
        hi(k) == IF lo(k) + size < text[3] THEN lo(k) + size ELSE text[3]
    IN  [k \in 1..NumChunks(L, size, overlap) |->
            TextSplit(Text(text[1], lo(k), hi(k)),
                      IF k = 1 THEN Some(0) ELSE Some(overlap))]

-----------------------------------------------------------------------------
(* _create_citation_nodes *)

\* line 181: the splitter the citation nodes are built with
citation_text_splitter_self(self) == text_splitter[self]
citation_text_splitter(self) ==
    TokenTextSplitter(CITATION_CHUNK_SIZE, CITATION_CHUNK_OVERLAP)

\* lines 187-189: start_offset = 0; if node_info: start_offset = int(node_info.get("start", 0))
start_offset_zero(node) == 0
start_offset_init(node) ==
    IF node.node.node_info # None /\ node.node.node_info[1] # EmptyDict
    THEN get(node.node.node_info[1], "start", 0)
    ELSE 0

\* line 192: len(new_nodes)+1
citation_number_zero_based(new_nodes) == Len(new_nodes)
citation_number(new_nodes) == Len(new_nodes) + 1

\* line 192: f"Source {n}:\n{split.text_chunk}\n"
SourceText(n, text_chunk) == <<"Source ", n, ":\n", text_chunk, "\n">>

\* line 195: split.num_char_overlap or 0
num_char_overlap_of(split) ==
    IF split.num_char_overlap = None THEN 0 ELSE split.num_char_overlap[1]

\* lines 197-200
new_node_info(start_offset, num_char_overlap, chunk_len) ==
    {<<"start", start_offset - num_char_overlap>>,
     <<"end", start_offset - num_char_overlap + chunk_len>>}

\* line 201: start_offset += chunk_len + 1
next_start_offset_no_separator(start_offset, chunk_len) == start_offset + chunk_len
next_start_offset(start_offset, chunk_len) == start_offset + chunk_len + 1

\* x or {}
or_empty(x) == IF x = None THEN EmptyDict ELSE x[1]

\* lines 191-213: the loop over one passage's splits
RECURSIVE splits_loop(_, _, _, _)
splits_loop(node, splits, start_offset, new_nodes) ==
    IF splits = <<>> THEN new_nodes
    ELSE LET split == Head(splits)
             text == SourceText(citation_number(new_nodes), split.text_chunk)
             num_char_overlap == num_char_overlap_of(split)
             chunk_len == len(split.text_chunk)
             info == new_node_info(start_offset, num_char_overlap, chunk_len)
         IN  splits_loop(node, Tail(splits),
                         next_start_offset(start_offset, chunk_len),
                         Append(new_nodes,
                                NodeWithScore(
                                    Node(text,
                                         or_empty(node.node.extra_info),
                                         or_empty(node.node.relationships),
                                         Some(info)),
                                    node.score)))

\* lines 183-214: the loop over the passages, their splits given
RECURSIVE nodes_loop(_, _, _)
nodes_loop(nodes_in, splits_of, new_nodes) ==
    IF nodes_in = <<>> THEN new_nodes
    ELSE nodes_loop(Tail(nodes_in), Tail(splits_of),
                    splits_loop(Head(nodes_in), Head(splits_of),
                                start_offset_init(Head(nodes_in)), new_nodes))

\* line 183: new_nodes = []
new_nodes_shared(q) ==
    LET others == {p \in DOMAIN nodes :
                      p # q /\ eng[p] = eng[q] /\ pc[p] = "in_synthesize"}
    IN  IF others = {} THEN <<>> ELSE nodes[CHOOSE p \in others : TRUE]
new_nodes_init(q) == <<>>

\* lines 179-214, called by task q on engine self
_create_citation_nodes(q, self, nodes_in) ==
    nodes_loop(nodes_in,
               [i \in 1..Len(nodes_in) |->
                   split_text_with_overlaps(citation_text_splitter(self),
                                            nodes_in[i].node.text)],
               new_nodes_init(q))

-----------------------------------------------------------------------------
(* The engines, the callers and the collaborators *)

Tasks == 1..NumTasks
NoTask == {}
Engines == {"e1", "e2"}

\* the engine each caller task holds: two callers share e1
EngineOf(q) == IF q % 2 = 1 THEN "e1" ELSE "e2"

\* lines 103-105: text_splitter or TokenTextSplitter(chunk_size=..., chunk_overlap=...)
init_text_splitter(text_splitter_arg, source_chunk_size, source_chunk_overlap) ==
    IF text_splitter_arg # None
    THEN text_splitter_arg[1]
    ELSE TokenTextSplitter(source_chunk_size, source_chunk_overlap)

\* the arguments the engines are constructed with: e1 with its own chunk size
\* and overlap, e2 with its own text splitter
ConstructorArgs(e) ==
    IF e = "e1"
    THEN [text_splitter |-> None, source_chunk_size |-> 128, source_chunk_overlap |-> 10]
    ELSE [text_splitter |-> Some(TokenTextSplitter(64, 0)),
          source_chunk_size |-> DEFAULT_SOURCE_CHUNK_SIZE,
          source_chunk_overlap |-> DEFAULT_SOURCE_CHUNK_OVERLAP]

QueryBundle(query_str) == [query_str |-> query_str]

PassageSky ==
    NodeWithScore(Node(Text("sky", 0, 54), None, None, None), 90)
PassageWater ==
    NodeWithScore(Node(Text("water", 0, 33), Some({<<"file_name", "water.txt">>}),
                       Some({<<"SOURCE", "doc2">>}), Some(EmptyDict)), 80)
PassageReport ==
    NodeWithScore(Node(Text("report", 100, 700), Some({<<"file_name", "report.txt">>}),
                       None, Some({<<"start", 100>>, <<"end", 700>>})), 70)

QueryStrs == {"When is water wet?", "What does the report say?"}

\* the Retriever: retrieve(query_bundle), the same passages for the same query
Retriever_retrieve(qb) ==
    IF qb.query_str = "When is water wet?"
    THEN <<PassageSky, PassageWater>>
    ELSE <<PassageReport, PassageSky>>

or_empty_list(x) == IF x = None THEN <<>> ELSE x[1]

\* the Synthesizer: synthesize / asynthesize(query_bundle, nodes, additional_source_nodes),
\* the same Response for the same arguments
Synthesizer_synthesize(qb, nodes_arg, additional_source_nodes) ==
    [response |-> <<"Answer to: ", qb.query_str>>,
     source_nodes |-> nodes_arg \o or_empty_list(additional_source_nodes)]

\* what a call does to its collaborators, as an entry of the task's log
Entry(kind, event_type, payload, event_id) ==
    [kind |-> kind, event_type |-> event_type, payload |-> payload, event_id |-> event_id]

\* callback_manager.on_event_start returns a fresh event id
fresh_event_id(q) == <<q, Len(log[q]) + 1>>

Emit(q, entry) == log' = [log EXCEPT ![q] = Append(@, entry)]
Goto(q, p) == pc' = [pc EXCEPT ![q] = p]
At(q, m, p) == mode[q] = m /\ pc[q] = p /\ running = {q}

call_vars == <<text_splitter, mode, eng, query_bundle, additional, ncalls, after_failure,
               b_pc, b_nodes, b_splits, b_out>>

Init ==
    /\ text_splitter =
          [e \in Engines |->
              init_text_splitter(ConstructorArgs(e).text_splitter,
                                 ConstructorArgs(e).source_chunk_size,
                                 ConstructorArgs(e).source_chunk_overlap)]
    /\ pc = [q \in Tasks |-> "idle"]
    /\ mode = [q \in Tasks |-> "query"]
    /\ eng = [q \in Tasks |-> EngineOf(q)]
    /\ query_bundle = [q \in Tasks |-> QueryBundle("When is water wet?")]
    /\ passages = [q \in Tasks |-> <<>>]
    /\ nodes = [q \in Tasks |-> <<>>]
    /\ additional = [q \in Tasks |-> None]
    /\ query_id = [q \in Tasks |-> None]
    /\ retrieve_id = [q \in Tasks |-> None]
    /\ response = [q \in Tasks |-> None]
    /\ returned = [q \in Tasks |-> None]
    /\ error = [q \in Tasks |-> None]
    /\ log = [q \in Tasks |-> <<>>]
    /\ running = NoTask
    /\ ncalls = 0
    /\ failed_on = [e \in Engines |-> FALSE]
    /\ after_failure = [q \in Tasks |-> FALSE]
    /\ b_pc = "unused" /\ b_nodes = <<>> /\ b_splits = <<>> /\ b_out = <<>>

\* a caller task calls m on its engine when the event loop is free
Call(q, m, qs, given, add) ==
    /\ pc[q] \in {"idle", "done", "failed"}
    /\ running = NoTask
    /\ ncalls < MaxCalls
    /\ ncalls' = ncalls + 1
    /\ running' = {q}
    /\ mode' = [mode EXCEPT ![q] = m]
    /\ query_bundle' = [query_bundle EXCEPT ![q] = QueryBundle(qs)]
    /\ passages' = [passages EXCEPT ![q] = given]
    /\ nodes' = [nodes EXCEPT ![q] = given]
    /\ additional' = [additional EXCEPT ![q] = add]
    /\ query_id' = [query_id EXCEPT ![q] = None]
    /\ retrieve_id' = [retrieve_id EXCEPT ![q] = None]
    /\ response' = [response EXCEPT ![q] = None]
    /\ returned' = [returned EXCEPT ![q] = None]
    /\ error' = [error EXCEPT ![q] = None]
    /\ log' = [log EXCEPT ![q] = <<>>]
    /\ after_failure' = [after_failure EXCEPT ![q] = failed_on[eng[q]]]
    /\ pc' = [pc EXCEPT ![q] = IF m = "synthesize" THEN "chunk" ELSE "query_start"]
    /\ UNCHANGED <<text_splitter, eng, failed_on, builder_vars>>

CallQuery(q) ==
    \E qs \in QueryStrs : Call(q, "query", qs, <<>>, None)

CallAQuery(q) ==
    \E qs \in QueryStrs : Call(q, "aquery", qs, <<>>, None)

\* synthesize(query_bundle, nodes, additional_source_nodes) on passages the caller has
CallSynthesize(q) ==
    Call(q, "synthesize", "What does the report say?",
         Retriever_retrieve(QueryBundle("What does the report say?")),
         Some(<<PassageWater>>))

\* an exception leaves the call: neither _query, _aquery nor synthesize catches
Propagate_swallowed(q, err) ==
    /\ pc' = [pc EXCEPT ![q] = "done"]
    /\ error' = error
    /\ returned' = [returned EXCEPT ![q] = Some(Synthesizer_synthesize(query_bundle[q], <<>>, None))]
    /\ running' = NoTask
    /\ failed_on' = failed_on
Propagate(q, err) ==
    /\ pc' = [pc EXCEPT ![q] = "failed"]
    /\ error' = [error EXCEPT ![q] = Some(err)]
    /\ returned' = returned
    /\ running' = NoTask
    /\ failed_on' = [failed_on EXCEPT ![eng[q]] = TRUE]

-----------------------------------------------------------------------------
(* the steps common to _query and _aquery, m being the path *)

\* lines 253-255 / 278-280
OnQueryStart(q, m) ==
    /\ At(q, m, "query_start")
    /\ query_id' = [query_id EXCEPT ![q] = Some(fresh_event_id(q))]
    /\ Emit(q, Entry("on_event_start", "QUERY",
                     Some({<<"query_str", query_bundle[q].query_str>>}),
                     Some(fresh_event_id(q))))
    /\ Goto(q, "retrieve_start")
    /\ UNCHANGED <<passages, nodes, retrieve_id, response, returned, error, running,
                   failed_on, call_vars>>

\* line 257 / 282
OnRetrieveStart(q, m) ==
    /\ At(q, m, "retrieve_start")
    /\ retrieve_id' = [retrieve_id EXCEPT ![q] = Some(fresh_event_id(q))]
    /\ Emit(q, Entry("on_event_start", "RETRIEVE", None, Some(fresh_event_id(q))))
    /\ Goto(q, "call_retrieve")
    /\ UNCHANGED <<passages, nodes, query_id, response, returned, error, running,
                   failed_on, call_vars>>

\* line 258 / 283: self._retriever.retrieve(query_bundle) is entered; the call is
\* a plain (blocking) call on both paths, the task keeps the event loop
CallRetriever(q, m) ==
    /\ At(q, m, "call_retrieve")
    /\ Emit(q, Entry("retrieve", "", Some({<<"query_bundle", query_bundle[q]>>}), None))
    /\ Goto(q, "in_retrieve")
    /\ UNCHANGED <<passages, nodes, query_id, retrieve_id, response, returned, error,
                   running, failed_on, call_vars>>

RetrieverReturns(q, m) ==
    /\ At(q, m, "in_retrieve")
    /\ passages' = [passages EXCEPT ![q] = Retriever_retrieve(query_bundle[q])]
    /\ nodes' = [nodes EXCEPT ![q] = Retriever_retrieve(query_bundle[q])]
    /\ Goto(q, "chunk")
    /\ UNCHANGED <<log, query_id, retrieve_id, response, returned, error, running,
                   failed_on, call_vars>>

RetrieverRaises(q, m) ==
    /\ At(q, m, "in_retrieve")
    /\ Emit(q, Entry("raised", "", Some({<<"exception", "RetrieverError">>}), None))
    /\ Propagate(q, "RetrieverError")
    /\ UNCHANGED <<passages, nodes, query_id, retrieve_id, response, call_vars>>

\* line 259 / 284 / 230: nodes = self._create_citation_nodes(nodes)
CreateNodes(q, m) ==
    /\ At(q, m, "chunk")
    /\ nodes' = [nodes EXCEPT ![q] = _create_citation_nodes(q, eng[q], nodes[q])]
    /\ Emit(q, Entry("_create_citation_nodes", "", None, None))
    /\ Goto(q, IF m = "synthesize" THEN "call_synthesize" ELSE "retrieve_end")
    /\ UNCHANGED <<passages, query_id, retrieve_id, response, returned, error, running,
                   failed_on, call_vars>>

\* lines 260-262: payload={"nodes": nodes}
query_retrieve_end_payload_raw(q) == {<<"nodes", passages[q]>>}
query_retrieve_end_payload(q) == {<<"nodes", nodes[q]>>}

\* lines 285-287: payload={"nodes": nodes}
aquery_retrieve_end_payload_raw(q) == {<<"nodes", passages[q]>>}
aquery_retrieve_end_payload(q) == {<<"nodes", nodes[q]>>}

OnRetrieveEnd(q, m) ==
    /\ At(q, m, "retrieve_end")
    /\ Emit(q, Entry("on_event_end", "RETRIEVE",
                     Some(IF m = "query" THEN query_retrieve_end_payload(q)
                                         ELSE aquery_retrieve_end_payload(q)),
                     retrieve_id[q]))
    /\ Goto(q, "call_synthesize")
    /\ UNCHANGED <<passages, nodes, query_id, retrieve_id, response, returned, error,
                   running, failed_on, call_vars>>

\* lines 269-273 / 294-298
OnQueryEnd(q, m) ==
    /\ At(q, m, "query_end")
    /\ Emit(q, Entry("on_event_end", "QUERY", Some({<<"response", response[q][1]>>}),
                     query_id[q]))
    /\ Goto(q, "return")
    /\ UNCHANGED <<passages, nodes, query_id, retrieve_id, response, returned, error,
                   running, failed_on, call_vars>>

\* line 274 / 299 / 236: return response
Return(q, m) ==
    /\ At(q, m, "return")
    /\ returned' = [returned EXCEPT ![q] = response[q]]
    /\ Emit(q, Entry("return", "", Some({<<"response", response[q][1]>>}), None))
    /\ Goto(q, "done")
    /\ running' = NoTask
    /\ UNCHANGED <<passages, nodes, query_id, retrieve_id, response, error, failed_on,
                   call_vars>>

SynthesizeEntry(q) ==
    Entry("synthesize", "",
          Some({<<"query_bundle", query_bundle[q]>>, <<"nodes", nodes[q]>>,
                <<"additional_source_nodes", additional[q]>>}),
          None)

\* lines 264-267 / 231-235: the blocking call self._response_synthesizer.synthesize
CallSynthesizer(q, m) ==
    /\ At(q, m, "call_synthesize")
    /\ Emit(q, SynthesizeEntry(q))
    /\ Goto(q, "in_synthesize")
    /\ UNCHANGED <<passages, nodes, query_id, retrieve_id, response, returned, error,
                   running, failed_on, call_vars>>

\* lines 289-292: await self._response_synthesizer.asynthesize: the task is
\* suspended and the event loop is free for other tasks
ACallSynthesizer(q) ==
    /\ At(q, "aquery", "call_synthesize")
    /\ Emit(q, SynthesizeEntry(q))
    /\ Goto(q, "in_synthesize")
    /\ running' = NoTask
    /\ UNCHANGED <<passages, nodes, query_id, retrieve_id, response, returned, error,
                   failed_on, call_vars>>

\* the synthesizer's result, m's call being resumed when the event loop is free
SynthesizerReturns(q, m) ==
    /\ mode[q] = m /\ pc[q] = "in_synthesize"
    /\ running = IF m = "aquery" THEN NoTask ELSE {q}
    /\ running' = {q}
    /\ response' = [response EXCEPT ![q] =
                       Some(Synthesizer_synthesize(query_bundle[q], nodes[q], additional[q]))]
    /\ Goto(q, IF m = "synthesize" THEN "return" ELSE "query_end")
    /\ UNCHANGED <<log, passages, nodes, query_id, retrieve_id, returned, error,
                   failed_on, call_vars>>

SynthesizerRaises(q, m) ==
    /\ mode[q] = m /\ pc[q] = "in_synthesize"
    /\ running = IF m = "aquery" THEN NoTask ELSE {q}
    /\ Emit(q, Entry("raised", "", Some({<<"exception", "SynthesizerError">>}), None))
    /\ Propagate(q, "SynthesizerError")
    /\ UNCHANGED <<passages, nodes, query_id, retrieve_id, response, call_vars>>

-----------------------------------------------------------------------------
(* _query (lines 251-274) *)

Query_OnQueryStart(q) == OnQueryStart(q, "query")
Query_OnRetrieveStart(q) == OnRetrieveStart(q, "query")
Query_CallRetriever(q) == CallRetriever(q, "query")
Query_RetrieverReturns(q) == RetrieverReturns(q, "query")
Query_RetrieverRaises(q) == RetrieverRaises(q, "query")
Query_CreateNodes(q) == CreateNodes(q, "query")
Query_OnRetrieveEnd(q) == OnRetrieveEnd(q, "query")
Query_CallSynthesizer(q) == CallSynthesizer(q, "query")
Query_SynthesizerReturns(q) == SynthesizerReturns(q, "query")
Query_SynthesizerRaises(q) == SynthesizerRaises(q, "query")
Query_OnQueryEnd(q) == OnQueryEnd(q, "query")
Query_Return(q) == Return(q, "query")

(* _aquery (lines 276-299) *)

AQuery_OnQueryStart(q) == OnQueryStart(q, "aquery")
AQuery_OnRetrieveStart(q) == OnRetrieveStart(q, "aquery")
AQuery_CallRetriever(q) == CallRetriever(q, "aquery")
AQuery_RetrieverReturns(q) == RetrieverReturns(q, "aquery")
AQuery_RetrieverRaises(q) == RetrieverRaises(q, "aquery")
AQuery_CreateNodes(q) == CreateNodes(q, "aquery")
AQuery_OnRetrieveEnd(q) == OnRetrieveEnd(q, "aquery")
AQuery_CallSynthesizer(q) == ACallSynthesizer(q)
AQuery_SynthesizerReturns(q) == SynthesizerReturns(q, "aquery")
AQuery_SynthesizerRaises(q) == SynthesizerRaises(q, "aquery")
AQuery_OnQueryEnd(q) == OnQueryEnd(q, "aquery")
AQuery_Return(q) == Return(q, "aquery")

(* synthesize (lines 224-236) *)

Synthesize_CreateNodes(q) == CreateNodes(q, "synthesize")
Synthesize_CallSynthesizer(q) == CallSynthesizer(q, "synthesize")
Synthesize_SynthesizerReturns(q) == SynthesizerReturns(q, "synthesize")
Synthesize_SynthesizerRaises(q) == SynthesizerRaises(q, "synthesize")
Synthesize_Return(q) == Return(q, "synthesize")

Next ==
    \E q \in Tasks :
        \/ CallQuery(q) \/ CallAQuery(q) \/ CallSynthesize(q)
        \/ Query_OnQueryStart(q) \/ Query_OnRetrieveStart(q) \/ Query_CallRetriever(q)
        \/ Query_RetrieverReturns(q) \/ Query_RetrieverRaises(q) \/ Query_CreateNodes(q)
        \/ Query_OnRetrieveEnd(q) \/ Query_CallSynthesizer(q)
        \/ Query_SynthesizerReturns(q) \/ Query_SynthesizerRaises(q)
        \/ Query_OnQueryEnd(q) \/ Query_Return(q)
        \/ AQuery_OnQueryStart(q) \/ AQuery_OnRetrieveStart(q) \/ AQuery_CallRetriever(q)
        \/ AQuery_RetrieverReturns(q) \/ AQuery_RetrieverRaises(q) \/ AQuery_CreateNodes(q)
        \/ AQuery_OnRetrieveEnd(q) \/ AQuery_CallSynthesizer(q)
        \/ AQuery_SynthesizerReturns(q) \/ AQuery_SynthesizerRaises(q)
        \/ AQuery_OnQueryEnd(q) \/ AQuery_Return(q)
        \/ Synthesize_CreateNodes(q) \/ Synthesize_CallSynthesizer(q)
        \/ Synthesize_SynthesizerReturns(q) \/ Synthesize_SynthesizerRaises(q)
        \/ Synthesize_Return(q)

Spec == Init /\ [][Next]_vars

-----------------------------------------------------------------------------
(* A direct call of _create_citation_nodes.  The passages and what the      *)
(* splitter returns for each are the inputs.                                *)

Chunk(n) == Text("d", 0, n)

\* what split_text_with_overlaps may return for one passage
SplitSeqs ==
    { <<>>,
      <<TextSplit(Chunk(20), Some(0))>>,
      <<TextSplit(Chunk(20), Some(0)), TextSplit(Chunk(11), Some(1))>>,
      <<TextSplit(Chunk(20), None), TextSplit(Chunk(11), Some(1))>>,
      <<TextSplit(Chunk(5), Some(0)), TextSplit(Chunk(5), Some(5))>>,
      <<TextSplit(Chunk(20), Some(0)), TextSplit(Chunk(11), Some(1)),
        TextSplit(Chunk(5), Some(3))>>,
      <<TextSplit(Chunk(11), Some(1))>>,
      <<TextSplit(Chunk(5), Some(0)), TextSplit(Chunk(20), Some(7))>> }

RECURSIVE CoveredLen(_)
CoveredLen(splits) ==
    IF splits = <<>> THEN 0
    ELSE len(Head(splits).text_chunk) - num_char_overlap_of(Head(splits))
         + CoveredLen(Tail(splits))

\* the retrieved passages: without positional info, with an empty one, with
\* {start, end}, and with one that has no "start"
BuilderNode(kind, L) ==
    CASE kind = 1 -> NodeWithScore(Node(Text("d", 0, L), None, None, None), 10)
      [] kind = 2 -> NodeWithScore(Node(Text("d", 0, L), Some(EmptyDict),
                                        Some(EmptyDict), Some(EmptyDict)), 20)
      [] kind = 3 -> NodeWithScore(Node(Text("d", 0, L),
                                        Some({<<"file_name", "a.txt">>}),
                                        Some({<<"SOURCE", "doc1">>}),
                                        Some({<<"start", 100>>, <<"end", 100 + L>>})), 30)
      [] kind = 4 -> NodeWithScore(Node(Text("d", 0, L), None, None,
                                        Some({<<"end", L>>})), 40)

BuilderInputs ==
    { [node |-> BuilderNode(kind, CoveredLen(s)), splits |-> s] :
          kind \in 1..4, s \in SplitSeqs }

InitEngineIdle ==
    /\ text_splitter = <<>>
    /\ pc = <<>> /\ mode = <<>> /\ eng = <<>> /\ query_bundle = <<>>
    /\ passages = <<>> /\ nodes = <<>> /\ additional = <<>> /\ query_id = <<>> /\ retrieve_id = <<>>
    /\ response = <<>> /\ returned = <<>> /\ error = <<>> /\ log = <<>>
    /\ running = {} /\ ncalls = 0 /\ failed_on = <<>> /\ after_failure = <<>>

InitBuilder ==
    /\ InitEngineIdle
    /\ \E n \in 0..MaxPassages : \E f \in [1..n -> BuilderInputs] :
          /\ b_nodes = [i \in 1..n |-> f[i].node]
          /\ b_splits = [i \in 1..n |-> f[i].splits]
    /\ b_pc = "called"
    /\ b_out = <<>>

\* lines 183-214 on the given passages
CreateCitationNodes ==
    /\ b_pc = "called"
    /\ b_out' = nodes_loop(b_nodes, b_splits, new_nodes_init(0))
    /\ b_pc' = "returned"
    /\ UNCHANGED <<b_nodes, b_splits>>
    /\ UNCHANGED engine_vars

NextBuilder == CreateCitationNodes

SpecBuilder == InitBuilder /\ [][NextBuilder]_vars

-----------------------------------------------------------------------------
(* Claims about _create_citation_nodes *)

RECURSIVE SumSeq(_, _, _)
\* the sum of F over the first n elements of s, F being "len", "len1" or "ov"
SumSeq(s, n, what) ==
    IF n = 0 THEN 0
    ELSE SumSeq(s, n - 1, what)
         + (CASE what = "count" -> Len(s[n])
              [] what = "len"   -> s[n].text_chunk[3] - s[n].text_chunk[2]
              [] what = "len1"  -> s[n].text_chunk[3] - s[n].text_chunk[2] + 1
              [] what = "ov"    -> IF s[n].num_char_overlap = None THEN 0
                                   ELSE s[n].num_char_overlap[1])

\* how many citation nodes the passages before passage i produced
FirstIndex(i) == SumSeq(b_splits, i - 1, "count")

OutNode(i, j) == b_out[FirstIndex(i) + j]
OutStart(i, j) == get(OutNode(i, j).node.node_info[1], "start", -1)
OutEnd(i, j) == get(OutNode(i, j).node.node_info[1], "end", -1)
ChunkLen(i, j) == SumSeq(b_splits[i], j, "len") - SumSeq(b_splits[i], j - 1, "len")
Overlap(i, j) == SumSeq(b_splits[i], j, "ov") - SumSeq(b_splits[i], j - 1, "ov")

\* the passage's positional "start", 0 without one
Base(i) ==
    LET info == b_nodes[i].node.node_info
    IN  IF info # None /\ (\E p \in info[1] : p[1] = "start")
        THEN (CHOOSE p \in info[1] : p[1] = "start")[2]
        ELSE 0

\* C1: for N passages where passage i splits into k_i chunks (k_i may be 0),
\* _create_citation_nodes returns exactly sum(k_i) nodes; the node at output
\* position n is labelled "Source n:", n = 1..sum(k_i), and the chunks of
\* passage i, in split order, come before those of passage i+1: nothing is
\* skipped, repeated or reset between passages.
C1_ContiguousNumbering ==
    b_pc = "returned" =>
        /\ Len(b_out) = SumSeq(b_splits, Len(b_splits), "count")
        /\ \A n \in 1..Len(b_out) :
              /\ b_out[n].node.text[1] = "Source "
              /\ b_out[n].node.text[2] = n
        /\ \A i \in 1..Len(b_nodes) : \A j \in 1..Len(b_splits[i]) :
              /\ OutNode(i, j).node.text[4] = b_splits[i][j].text_chunk
              /\ OutNode(i, j).score = b_nodes[i].score

C1_Witness ==
    /\ b_pc = "returned"
    /\ Len(b_nodes) = 2
    /\ Len(b_splits[1]) = 2
    /\ Len(b_splits[2]) = 3
    /\ b_nodes[1].score # b_nodes[2].score
    /\ Len(b_out) = 5
    /\ b_out[3].node.text[2] = 3
    /\ b_out[5].node.text[2] = 5

\* C2: the j-th citation node of a passage has
\* start = base + sum over earlier chunks i<j of (len_i + 1) - overlap_j and
\* end = start + len_j, base being the passage's positional start (0 without
\* positional info), the running offset restarting from base at each passage.
\* A passage with start 100 and chunks of lengths 20 and 11 with overlaps 0
\* and 1 yields {100,120} and {120,131}; without positional info the first
\* node (the first chunk overlaps nothing) is {0, chunkLength}.
C2_Offsets ==
    b_pc = "returned" =>
        \A i \in 1..Len(b_nodes) :
            /\ \A j \in 1..Len(b_splits[i]) :
                  /\ OutStart(i, j) = Base(i) + SumSeq(b_splits[i], j - 1, "len1")
                                      - Overlap(i, j)
                  /\ OutEnd(i, j) = OutStart(i, j) + ChunkLen(i, j)
                  /\ Cardinality(OutNode(i, j).node.node_info[1]) = 2
            /\ ( /\ Base(i) = 100
                 /\ b_splits[i] = <<TextSplit(Chunk(20), Some(0)),
                                    TextSplit(Chunk(11), Some(1))>> )
               => /\ OutStart(i, 1) = 100 /\ OutEnd(i, 1) = 120
                  /\ OutStart(i, 2) = 120 /\ OutEnd(i, 2) = 131
            /\ ( /\ b_nodes[i].node.node_info = None
                 /\ Len(b_splits[i]) >= 1
                 /\ Overlap(i, 1) = 0 )
               => /\ OutStart(i, 1) = 0
                  /\ OutEnd(i, 1) = ChunkLen(i, 1)

C2_Witness ==
    /\ b_pc = "returned"
    /\ Len(b_nodes) = 2
    /\ b_nodes[1].node.node_info = None
    /\ Len(b_splits[1]) = 2
    /\ OutStart(1, 1) = 0 /\ OutEnd(1, 1) = 20
    /\ Base(2) = 100
    /\ b_splits[2] = <<TextSplit(Chunk(20), Some(0)), TextSplit(Chunk(11), Some(1))>>
    /\ OutStart(2, 1) = 100 /\ OutEnd(2, 1) = 120
    /\ OutStart(2, 2) = 120 /\ OutEnd(2, 2) = 131

\* the splits reconstruct the passage's text: the first overlap is 0, each
\* overlap is at most the previous chunk's length, and the chunk lengths
\* minus the overlaps sum to the text's length
Reconstructs(i) ==
    /\ Len(b_splits[i]) >= 1 => Overlap(i, 1) = 0
    /\ \A j \in 2..Len(b_splits[i]) : Overlap(i, j) <= ChunkLen(i, j - 1)
    /\ SumSeq(b_splits[i], Len(b_splits[i]), "len")
       - SumSeq(b_splits[i], Len(b_splits[i]), "ov") = len(b_nodes[i].node.text)

\* C10 (as claimed): for a passage with base offset s and text length L whose
\* splits reconstruct the text, every citation node satisfies
\* s <= start < end <= s + L and the starts are strictly increasing.
C10_WithinParentSpan ==
    b_pc = "returned" =>
        \A i \in 1..Len(b_nodes) :
            Reconstructs(i) =>
                \A j \in 1..Len(b_splits[i]) :
                    /\ Base(i) <= OutStart(i, j)
                    /\ OutStart(i, j) < OutEnd(i, j)
                    /\ OutEnd(i, j) <= Base(i) + len(b_nodes[i].node.text)
                    /\ j > 1 => OutStart(i, j - 1) < OutStart(i, j)

\* C10 (amended): for such a passage every citation node satisfies
\* s <= start <= end, start < end when its chunk is not empty, the starts are
\* strictly increasing, and end is at most s + (the lengths of the chunks up
\* to and including it) + (the number of chunks before it); end may exceed
\* s + L.
C10_Amended ==
    b_pc = "returned" =>
        \A i \in 1..Len(b_nodes) :
            Reconstructs(i) =>
                \A j \in 1..Len(b_splits[i]) :
                    /\ Base(i) <= OutStart(i, j)
                    /\ OutStart(i, j) <= OutEnd(i, j)
                    /\ ChunkLen(i, j) > 0 => OutStart(i, j) < OutEnd(i, j)
                    /\ OutEnd(i, j) <= Base(i) + SumSeq(b_splits[i], j, "len") + (j - 1)
                    /\ j > 1 => OutStart(i, j - 1) < OutStart(i, j)

C10_Witness ==
    /\ b_pc = "returned"
    /\ Len(b_nodes) >= 1
    /\ Reconstructs(1)
    /\ Base(1) = 100
    /\ Len(b_splits[1]) = 3
    /\ OutEnd(1, 3) > Base(1) + len(b_nodes[1].node.text)
    /\ OutStart(1, 1) < OutStart(1, 2) /\ OutStart(1, 2) < OutStart(1, 3)

-----------------------------------------------------------------------------
(* Claims about the query paths *)

Kinds(l) == [k \in 1..Len(l) |-> <<l[k].kind, l[k].event_type>>]
StripIds(l) == [k \in 1..Len(l) |-> [l[k] EXCEPT !.event_id = None]]
IsNotification(e) == e.kind \in {"on_event_start", "on_event_end"}
Notifications(l) == SelectSeq(l, IsNotification)
Has(q, kind, event_type) ==
    \E k \in 1..Len(log[q]) : log[q][k].kind = kind /\ log[q][k].event_type = event_type
Count(q, kind) == Cardinality({k \in 1..Len(log[q]) : log[q][k].kind = kind})
Built(q) == Has(q, "_create_citation_nodes", "")
Raised(q) == Has(q, "raised", "")
IsCitationNode(n) == Len(n.node.text) = 5 /\ n.node.text[1] = "Source "
Numbered(ns) == \A n \in 1..Len(ns) : IsCitationNode(ns[n]) /\ ns[n].node.text[2] = n

\* the citation nodes of the passages ps, built alone with a 256/20 splitter
SoloNodes(ps) ==
    nodes_loop(ps,
               [i \in 1..Len(ps) |->
                   split_text_with_overlaps(TokenTextSplitter(256, 20), ps[i].node.text)],
               <<>>)

QueryPattern ==
    << <<"on_event_start", "QUERY">>, <<"on_event_start", "RETRIEVE">>,
       <<"retrieve", "">>, <<"_create_citation_nodes", "">>,
       <<"on_event_end", "RETRIEVE">>, <<"synthesize", "">>,
       <<"on_event_end", "QUERY">>, <<"return", "">> >>

\* C3: in every execution of query that returns, each step happens once and
\* in this order: 'query started' (payload query_str), 'retrieval started',
\* the Retriever call, citation-node construction, 'retrieval ended' with the
\* citation nodes (not the raw passages) as payload, the Synthesizer call on
\* those same nodes, 'query ended' with the Response, return of that
\* Response.  The Synthesizer is never called before 'retrieval ended' and
\* no Response is returned before 'query ended'.
C3_QueryOrder ==
    \A q \in Tasks : mode[q] = "query" =>
        /\ \A k \in 1..Len(log[q]) :
              \/ k <= 8 /\ Kinds(log[q])[k] = QueryPattern[k]
              \/ k = Len(log[q]) /\ log[q][k].kind = "raised"
        /\ \A k \in 1..Len(log[q]) :
              log[q][k].kind = "synthesize" =>
                  \E m \in 1..(k - 1) :
                      log[q][m].kind = "on_event_end" /\ log[q][m].event_type = "RETRIEVE"
        /\ returned[q] # None => Has(q, "on_event_end", "QUERY")
        /\ pc[q] = "done" =>
              /\ Kinds(log[q]) = QueryPattern
              /\ log[q][1].payload = Some({<<"query_str", query_bundle[q].query_str>>})
              /\ log[q][3].payload = Some({<<"query_bundle", query_bundle[q]>>})
              /\ Numbered(get(log[q][5].payload[1], "nodes", <<>>))
              /\ Len(get(log[q][5].payload[1], "nodes", <<>>)) = Len(nodes[q])
              /\ get(log[q][6].payload[1], "nodes", <<>>)
                 = get(log[q][5].payload[1], "nodes", <<>>)
              /\ returned[q] # None
              /\ log[q][7].payload = Some({<<"response", returned[q][1]>>})
              /\ log[q][8].payload = Some({<<"response", returned[q][1]>>})

C3_Witness ==
    \E q \in Tasks :
        /\ mode[q] = "query" /\ pc[q] = "done"
        /\ Len(log[q]) = 8
        /\ Len(nodes[q]) = 4
        /\ returned[q] # None
        /\ returned[q][1].source_nodes = nodes[q]

\* C4: for the same query and the same deterministic collaborators, _query
\* and _aquery go through the same steps, emit the same notifications with
\* the same payloads, pass the same citation nodes to the Synthesizer and
\* return the same Response.
C4_SyncAsyncSame ==
    \A p \in Tasks, r \in Tasks :
        ( /\ mode[p] = "query" /\ mode[r] = "aquery"
          /\ pc[p] = "done" /\ pc[r] = "done"
          /\ query_bundle[p] = query_bundle[r] )
        => /\ StripIds(log[p]) = StripIds(log[r])
           /\ returned[p] = returned[r]
           /\ nodes[p] = nodes[r]

C4_Witness ==
    \E p \in Tasks, r \in Tasks :
        /\ mode[p] = "query" /\ mode[r] = "aquery"
        /\ pc[p] = "done" /\ pc[r] = "done"
        /\ query_bundle[p] = query_bundle[r]
        /\ Len(log[r]) = 8
        /\ Len(nodes[r]) = 4
        /\ returned[r] # None

InFlightPositions ==
    {"query_start", "retrieve_start", "call_retrieve", "chunk", "retrieve_end",
     "call_synthesize", "query_end", "return"}

\* C5: in _aquery the suspension points are exactly the two collaborator
\* calls: while the retrieval call is in progress, and while the synthesis
\* call is in progress, the event loop is free to run other tasks; at every
\* other position of _aquery (citation-node construction included) the task
\* is not suspended.
C5_SuspendsAtBothCollaboratorCalls ==
    \A q \in Tasks : mode[q] = "aquery" =>
        /\ pc[q] \in {"in_retrieve", "in_synthesize"} => running # {q}
        /\ pc[q] \in InFlightPositions => running = {q}

\* the expected notifications of a query on a fresh engine
ExpectedNotifications(q) ==
    IF mode[q] = "synthesize" THEN <<>>
    ELSE << Entry("on_event_start", "QUERY",
                  Some({<<"query_str", query_bundle[q].query_str>>}), None),
            Entry("on_event_start", "RETRIEVE", None, None),
            Entry("on_event_end", "RETRIEVE",
                  Some({<<"nodes", SoloNodes(passages[q])>>}), None),
            Entry("on_event_end", "QUERY",
                  Some({<<"response",
                          Synthesizer_synthesize(query_bundle[q], SoloNodes(passages[q]),
                                                 additional[q])>>}), None) >>

\* C6: if the Retriever or the Synthesizer raises during a query, the call
\* ends failed with that same error: no later step runs (no Synthesizer call
\* after a Retriever failure), nothing is returned, nothing is retried.  A
\* later call on the same engine produces the notifications and the Response
\* of a fresh engine, its citation numbers starting at 1.
C6_FailurePropagates ==
    \A q \in Tasks :
        /\ Raised(q) =>
              /\ pc[q] = "failed"
              /\ log[q][Len(log[q])].kind = "raised"
              /\ error[q] = Some(get(log[q][Len(log[q])].payload[1], "exception", ""))
              /\ returned[q] = None
              /\ Count(q, "raised") = 1
              /\ Count(q, "retrieve") <= 1 /\ Count(q, "synthesize") <= 1
              /\ ~Has(q, "return", "")
              /\ error[q] = Some("RetrieverError") =>
                    ~Has(q, "synthesize", "") /\ ~Built(q)
        /\ pc[q] = "failed" => Raised(q) /\ failed_on[eng[q]]
        /\ (pc[q] = "done" /\ after_failure[q]) =>
              /\ nodes[q] = SoloNodes(passages[q])
              /\ Numbered(nodes[q])
              /\ Notifications(StripIds(log[q])) = ExpectedNotifications(q)
              /\ returned[q] = Some(Synthesizer_synthesize(query_bundle[q],
                                                           SoloNodes(passages[q]),
                                                           additional[q]))

C6_Witness ==
    \E p \in Tasks, q \in Tasks :
        /\ p # q /\ eng[p] = eng[q]
        /\ pc[p] = "failed" /\ error[p] = Some("SynthesizerError") /\ Len(nodes[p]) = 4
        /\ pc[q] = "done" /\ after_failure[q] /\ mode[q] = "aquery"
        /\ Len(nodes[q]) = 4 /\ nodes[q][1].node.text[2] = 1
        /\ returned[q] # None

C8_PerCallNumbering ==
    \A q \in Tasks : (mode[q] = "aquery" /\ Built(q)) =>
        /\ Numbered(nodes[q])
        /\ nodes[q] = SoloNodes(Retriever_retrieve(query_bundle[q]))
        /\ pc[q] = "done" =>
              /\ returned[q] # None
              /\ returned[q][1] = Synthesizer_synthesize(
                                      query_bundle[q],
                                      SoloNodes(Retriever_retrieve(query_bundle[q])), None)

C8_Witness ==
    \E p \in Tasks, q \in Tasks :
        /\ p # q /\ eng[p] = eng[q]
        /\ mode[p] = "aquery" /\ mode[q] = "aquery"
        /\ pc[p] = "in_synthesize" /\ Len(nodes[p]) = 4
        /\ pc[q] = "in_synthesize" /\ Len(nodes[q]) = 2
        /\ nodes[q][1].node.text[2] = 1 /\ nodes[q][2].node.text[2] = 2

\* C9: in every execution of query (blocking or not), those in which the
\* Retriever or the Synthesizer raises included, every start notification
\* has, when the call leaves, exactly one later end notification of the same
\* type carrying the event id its start returned, and the RETRIEVE pair is
\* nested inside the QUERY pair.
C9_BalancedNotifications ==
    \A q \in Tasks :
        (mode[q] \in {"query", "aquery"} /\ pc[q] \in {"done", "failed"}) =>
            \A k \in 1..Len(log[q]) :
                log[q][k].kind = "on_event_start" =>
                    /\ Cardinality({m \in (k + 1)..Len(log[q]) :
                                       /\ log[q][m].kind = "on_event_end"
                                       /\ log[q][m].event_type = log[q][k].event_type
                                       /\ log[q][m].event_id = log[q][k].event_id}) = 1
                    /\ log[q][k].event_type = "RETRIEVE" =>
                          \E a \in 1..(k - 1), b \in (k + 1)..Len(log[q]) :
                              /\ log[q][a].kind = "on_event_start"
                              /\ log[q][a].event_type = "QUERY"
                              /\ log[q][b].kind = "on_event_end"
                              /\ log[q][b].event_type = "QUERY"
                              /\ \E m \in (k + 1)..(b - 1) :
                                    /\ log[q][m].kind = "on_event_end"
                                    /\ log[q][m].event_type = "RETRIEVE"

====
